---- MODULE Spec2Model ----
(***************************************************************************)
(* Model of automated_flight_tracking_system.py: the key-rotating Gemini   *)
(* generator, the JSON extraction of its answers, and the workflow that    *)
(* turns them into Jira issues (epic -> tasks -> test-case subtasks).      *)
(*                                                                         *)
(* Remote calls are the environment: each Jira request answers with its    *)
(* "created"/"ok" status or with another status, each Gemini call returns  *)
(* a text or raises.  Texts are sequences over a token alphabet in which   *)
(* an object literal is one token:                                         *)
(*   "["  "]"  ","   the JSON array punctuation                            *)
(*   "T"  an object with the four TaskSpec fields                          *)
(*   "C"  an object with the six TestCaseSpec fields                       *)
(*   "p"  an object that holds a "title" only                              *)
(*   "1"  a number                                                         *)
(*   "x"  prose (never part of a JSON document)                            *)
(* Issue keys are numbers (CPG-n is n); 0 stands for Python's None.        *)
(***************************************************************************)
EXTENDS Integers, Sequences, FiniteSets, TLC

\* ------------------------------------------------------------- bounds
MaxLen == 5         \* longest text given to the parser on its own
MaxKeys == 3        \* largest credential pool of the generator on its own
MaxCalls == 2       \* generate calls in a row of the generator on its own
MaxTasks == 2       \* most items in a generated task array
MaxSpecs == 3       \* most TaskSpecs given to create_and_link_tasks on its own
MaxTests == 1       \* most items in a generated test-case array
MaxLinkTypes == 2   \* most link types the tracker lists
MaxCases == 3       \* most TestCaseSpecs given to the subtask loop on its own

\* ------------------------------------------------------ Python values
None == [type |-> "None", items |-> <<>>, fields |-> {}]
Num == [type |-> "num", items |-> <<>>, fields |-> {}]
Str == [type |-> "str", items |-> <<>>, fields |-> {}]
Obj(fs) == [type |-> "obj", items |-> <<>>, fields |-> fs]
Arr(its) == [type |-> "arr", items |-> its, fields |-> {}]

TaskFields == {"title", "summary", "category", "component"}
TestFields == {"test_id", "test_name", "description", "steps",
               "expected_result", "priority"}

\* The object a token stands for.
TokenObject(c) ==
    CASE c = "T" -> Obj(TaskFields)
      [] c = "C" -> Obj(TestFields)
      [] OTHER -> Obj({"title"})

ObjectTokens == {"T", "C", "p"}

\* bool(v): None, an empty list and an empty dict are false.
Truthy(v) ==
    CASE v.type = "None" -> FALSE
      [] v.type = "arr" -> Len(v.items) > 0
      [] v.type = "obj" -> v.fields # {}
      [] OTHER -> TRUE

\* The exception of reading v[f] for every f of fs ("none": no exception).
FieldsError(v, fs) ==
    IF v.type # "obj" THEN "TypeError"
    ELSE IF fs \subseteq v.fields THEN "none" ELSE "KeyError"

\* What  for x in v  iterates over: a list's items, a dict's keys.
Iterable(v) == v.type \in {"arr", "obj", "str"}

IterItems(v) ==
    CASE v.type = "arr" -> v.items
      [] v.type = "obj" -> [i \in 1..Cardinality(v.fields) |-> Str]
      [] OTHER -> <<>>

\* ------------------------------------------------------------ json.loads
Failure == [ok |-> FALSE, val |-> None, next |-> 0]

RECURSIVE ParseValue(_, _), ParseElements(_, _, _)
\* One JSON value starting at position i (1-based) of s.
ParseValue(s, i) ==
    IF i > Len(s) THEN Failure
    ELSE IF s[i] \in ObjectTokens
        THEN [ok |-> TRUE, val |-> TokenObject(s[i]), next |-> i + 1]
    ELSE IF s[i] = "1" THEN [ok |-> TRUE, val |-> Num, next |-> i + 1]
    ELSE IF s[i] = "["
        THEN IF i + 1 <= Len(s) /\ s[i + 1] = "]"
             THEN [ok |-> TRUE, val |-> Arr(<<>>), next |-> i + 2]
             ELSE ParseElements(s, i + 1, <<>>)
    ELSE Failure

\* The elements of an array from position i on, acc holding those before.
ParseElements(s, i, acc) ==
    LET r == ParseValue(s, i) IN
    IF ~r.ok \/ r.next > Len(s) THEN Failure
    ELSE IF s[r.next] = ","
        THEN ParseElements(s, r.next + 1, Append(acc, r.val))
    ELSE IF s[r.next] = "]"
        THEN [ok |-> TRUE, val |-> Arr(Append(acc, r.val)), next |-> r.next + 1]
    ELSE Failure

\* json.loads(s): the value, or a JSONDecodeError (text left over included).
json_loads(s) ==
    LET r == ParseValue(s, 1) IN
    IF r.ok /\ r.next = Len(s) + 1
    THEN [ok |-> TRUE, val |-> r.val]
    ELSE [ok |-> FALSE, val |-> None]

\* ------------------------------------------------- str.find, str.rfind
\* Python's 0-based index of the first c in s, or -1.
find(s, c) ==
    IF \E i \in 1..Len(s) : s[i] = c
    THEN (CHOOSE i \in 1..Len(s) : s[i] = c /\ \A j \in 1..(i - 1) : s[j] # c) - 1
    ELSE -1

\* Python's 0-based index of the last c in s, or -1.
rfind(s, c) ==
    IF \E i \in 1..Len(s) : s[i] = c
    THEN (CHOOSE i \in 1..Len(s) : s[i] = c /\ \A j \in (i + 1)..Len(s) : s[j] # c) - 1
    ELSE -1

\* s[a:b] for 0 <= a, 0 <= b.
Slice(s, a, b) == SubSeq(s, a + 1, IF b > Len(s) THEN Len(s) ELSE b)

\* parse_json_from_text with the wrong end of the closing bracket search.
parse_json_first_close(raw_text) ==
    LET json_start_index == find(raw_text, "[")
        json_end_index == find(raw_text, "]") + 1
        r == IF json_start_index # -1 /\ json_end_index > json_start_index
             THEN json_loads(Slice(raw_text, json_start_index, json_end_index))
             ELSE json_loads(raw_text)
    IN IF r.ok THEN r.val ELSE None

\* parse_json_from_text: the decoded value, None on a JSONDecodeError.
parse_json_from_text(raw_text) ==
    LET json_start_index == find(raw_text, "[")
        json_end_index == rfind(raw_text, "]") + 1
        r == IF json_start_index # -1 /\ json_end_index > json_start_index
             THEN json_loads(Slice(raw_text, json_start_index, json_end_index))
             ELSE json_loads(raw_text)
    IN IF r.ok THEN r.val ELSE None

\* --------------------------------------------------------------- state
VARIABLES
    pc,                       \* the position of the single thread of control
    exception,                \* the exception that ended the run, or "none"
    gemini_api_keys,          \* the credential pool (key ids)
    active_gemini_key_index,  \* the shared cursor into the pool
    start_index,              \* generate's local: the cursor at call entry
    num_attempts,             \* generate's local: failed attempts so far
    gen_caller,               \* who called generate: subtasks | tests | harness
    gen_trace,                \* what the current generate call did, in order
    gen_calls,                \* generate calls entered so far
    raw_response,             \* the text generate returned
    parse_text,               \* the text given to the parser run on its own
    parse_result,             \* the parser's result when run on its own
    parent_ticket_key,        \* main's local: the epic's key (0: None)
    subtask_definitions,      \* main's local: what planSubtasks returned
    available_link_types,     \* create_and_link_tasks' local
    link_type_to_use,         \* create_and_link_tasks' local ("": None)
    created_issue_keys,       \* created task keys, in creation order
    issue_data_mapping,       \* task key -> the item it was created from
    task_i,                   \* create_and_link_tasks' loop position
    task_k,                   \* main's loop position over created_task_keys
    test_case_definitions,    \* process_and_create_test_cases' local
    tc_j,                     \* process_and_create_test_cases' loop position
    created_test_keys,        \* process_and_create_test_cases' local
    next_key,                 \* the tracker: the number of its next issue
    calls,                    \* every request sent to the tracker, in order
    threads                   \* frames of generate calls run by other threads

vars == <<pc, exception, gemini_api_keys, active_gemini_key_index, start_index,
          num_attempts, gen_caller, gen_trace, gen_calls, raw_response,
          parse_text, parse_result, parent_ticket_key, subtask_definitions,
          available_link_types, link_type_to_use, created_issue_keys,
          issue_data_mapping, task_i, task_k, test_case_definitions, tc_j,
          created_test_keys, next_key, calls, threads>>

genVars == <<gemini_api_keys, active_gemini_key_index, start_index,
             num_attempts, gen_caller, gen_trace, gen_calls, raw_response>>
parseVars == <<parse_text, parse_result>>
flowVars == <<parent_ticket_key, subtask_definitions, available_link_types,
              link_type_to_use, created_issue_keys, issue_data_mapping, task_i,
              task_k, test_case_definitions, tc_j, created_test_keys, next_key,
              calls>>

\* The two keys read from the environment (GEMINI_API_KEY1, GEMINI_API_KEY2).
NumKeys == 2

\* No exception raised, no generate or parser call in progress.
InitNoCall ==
    /\ exception = "none"
    /\ start_index = 0
    /\ num_attempts = 0
    /\ gen_caller = "none"
    /\ gen_trace = <<>>
    /\ raw_response = <<>>
    /\ parse_result = None

\* The program starts no thread: main() runs on the only one.
SingleThread == threads = <<>>

\* What holds before any function has run: no exception, no frame.
InitCommon ==
    /\ InitNoCall
    /\ available_link_types = <<>>
    /\ link_type_to_use = ""
    /\ created_issue_keys = <<>>
    /\ issue_data_mapping = <<>>
    /\ task_i = 0
    /\ task_k = 0
    /\ test_case_definitions = None
    /\ tc_j = 0
    /\ created_test_keys = <<>>

\* main() not entered yet: nothing created, nothing generated.
InitIdle ==
    /\ InitCommon
    /\ gen_calls = 0
    /\ parent_ticket_key = 0
    /\ subtask_definitions = None
    /\ next_key = 1
    /\ calls = <<>>

\* ------------------------------------------------------ the text alphabet
Chars == {"[", "]", ",", "T", "1", "x"}

\* Every text of at most n tokens.
Texts(n) == UNION {[1..k -> Chars] : k \in 0..n}

\* --------------------------------------------- the parser on its own
InitParse ==
    /\ SingleThread
    /\ InitIdle
    /\ pc = "parse_call"
    /\ gemini_api_keys = [i \in 1..NumKeys |-> i]
    /\ active_gemini_key_index = 0
    /\ parse_text \in Texts(MaxLen)

\* One call of parse_json_from_text(raw_response).
ParseText ==
    /\ pc = "parse_call"
    /\ parse_result' = parse_json_from_text(parse_text)
    /\ pc' = "parsed"
    /\ UNCHANGED <<exception, parse_text, genVars, flowVars, threads>>

NextParse == ParseText

SpecParse == InitParse /\ [][NextParse]_vars

\* ------------------------------------------- the generator's answers
RECURSIVE Join(_)
\* The items of q separated by commas.
Join(q) ==
    IF Len(q) = 0 THEN <<>>
    ELSE IF Len(q) = 1 THEN <<q[1]>>
    ELSE <<q[1], ",">> \o Join(Tail(q))

ArrayText(q) == <<"[">> \o Join(q) \o <<"]">>

ItemSeqs(S, n) == UNION {[1..k -> S] : k \in 0..n}

\* Answers to the subtask prompt: arrays of complete and incomplete objects,
\* an array in prose, an array of test cases, prose, a bare object and a
\* cut-off array.
TaskResponses ==
    {ArrayText(q) : q \in ItemSeqs({"T", "p"}, MaxTasks)}
    \cup {<<"x">> \o ArrayText(<<"T">>) \o <<"x">>, ArrayText(<<"C">>),
          <<"x">>, <<"T">>, <<"[", "T">>}

\* Answers to the test-case prompt, likewise, and a number.
TestResponses ==
    {ArrayText(q) : q \in ItemSeqs({"C", "p"}, MaxTests)}
    \cup {<<"x">> \o ArrayText(<<"C">>) \o <<"x">>, <<"x">>, <<"C">>, <<"1">>}

Responses(caller) ==
    CASE caller = "subtasks" -> TaskResponses
      [] caller = "tests" -> TestResponses
      [] OTHER -> {<<"x">>}

\* ------------------------------------ generate_with_gemini_resilience
Event(ev, n) == [ev |-> ev, n |-> n]

\* A rotation that leaves the cursor where it is.
NextIndexStuck(i, n) == i

\* A rotation that runs off the end of the pool.
NextIndexNoWrap(i, n) == i + 1

\* The cursor after one rotation of a pool of n keys.
NextIndex(i, n) == (i + 1) % n

\* Where generate returns to.
ReturnPc(caller) ==
    CASE caller = "subtasks" -> "parse_subtasks"
      [] caller = "tests" -> "parse_tests"
      [] OTHER -> "gen_done"

\* A call entry that starts every call from the first key.
EnterGenerateAtFirstKey(caller) ==
    /\ active_gemini_key_index' = 0
    /\ start_index' = 0
    /\ num_attempts' = 0
    /\ gen_caller' = caller
    /\ gen_trace' = <<>>
    /\ gen_calls' = gen_calls + 1
    /\ pc' = "gen"
    /\ UNCHANGED <<gemini_api_keys, raw_response>>

\* Call entry: the start marker is the cursor, no attempt made yet.
EnterGenerate(caller) ==
    /\ start_index' = active_gemini_key_index
    /\ num_attempts' = 0
    /\ gen_caller' = caller
    /\ gen_trace' = <<>>
    /\ gen_calls' = gen_calls + 1
    /\ pc' = "gen"
    /\ UNCHANGED <<gemini_api_keys, active_gemini_key_index, raw_response>>

\* generate's frame, popped on return.
LeaveGenerate ==
    /\ start_index' = 0
    /\ num_attempts' = 0
    /\ gen_caller' = "none"
    /\ gen_trace' = <<>>
    /\ raw_response' = <<>>
    /\ UNCHANGED <<gemini_api_keys, active_gemini_key_index, gen_calls>>

\* An attempt with the key at the cursor succeeds: the text is returned.
GenSuccess ==
    /\ pc = "gen"
    /\ num_attempts < Len(gemini_api_keys)
    /\ \E text \in Responses(gen_caller) : raw_response' = text
    /\ gen_trace' = Append(gen_trace, Event("attempt", active_gemini_key_index))
    /\ pc' = ReturnPc(gen_caller)
    /\ UNCHANGED <<exception, gemini_api_keys, active_gemini_key_index,
                   start_index, num_attempts, gen_caller, gen_calls,
                   parseVars, threads, flowVars>>

\* What str(error) can read, as tokens: a rate-limit status, a quota message,
\* a server error.
ErrorTexts == <<<<"429", "x">>, <<"x", "quota">>, <<"500">>>>

\* Python's `sub in text`, on tokens.
Contains(text, sub) == \E i \in 1..Len(text) : text[i] = sub

\* The test of line 55 on the error text.
RateLimited(error_string) ==
    Contains(error_string, "429") \/ Contains(error_string, "quota")

\* A short pause after every failed attempt, whatever the error.
ShortPauseAlways(error_string) == <<Event("sleep", 1)>>

\* The short pause of lines 55-56.
ShortPause(error_string) ==
    IF RateLimited(error_string) THEN <<Event("sleep", 1)>> ELSE <<>>

\* The longer pause of lines 63-64.
LongPause(new_index, start) ==
    IF new_index = start THEN <<Event("sleep", 2)>> ELSE <<>>

\* An attempt raises: pause on a rate-limit error, rotate, count the attempt,
\* pause longer when the cursor is back at the start marker.
GenFailure ==
    /\ pc = "gen"
    /\ num_attempts < Len(gemini_api_keys)
    /\ \E e \in 1..Len(ErrorTexts) :
        LET new_index == NextIndex(active_gemini_key_index, Len(gemini_api_keys)) IN
        /\ active_gemini_key_index' = new_index
        /\ gen_trace' = gen_trace
               \o <<Event("attempt", active_gemini_key_index), Event("error", e)>>
               \o ShortPause(ErrorTexts[e])
               \o <<Event("rotate", new_index)>>
               \o LongPause(new_index, start_index)
    /\ num_attempts' = num_attempts + 1
    /\ UNCHANGED <<pc, exception, gemini_api_keys, start_index, gen_caller,
                   gen_calls, raw_response, parseVars, threads, flowVars>>

\* The loop ends without a return: ConnectionError, which no caller in the
\* program catches.
GenExhausted ==
    /\ pc = "gen"
    /\ num_attempts >= Len(gemini_api_keys)
    /\ exception' = "ConnectionError"
    /\ pc' = IF gen_caller = "harness" THEN "gen_raised" ELSE "crashed"
    /\ UNCHANGED <<genVars, parseVars, threads, flowVars>>

\* ------------------------------------------ the generator on its own
InitGen ==
    /\ SingleThread
    /\ InitIdle
    /\ pc = "gen_idle"
    /\ parse_text = <<>>
    /\ gemini_api_keys \in {[i \in 1..n |-> i] : n \in 1..MaxKeys}
    /\ active_gemini_key_index \in 0..(Len(gemini_api_keys) - 1)

\* A caller that catches the exhaustion error and calls generate again.
HarnessCall ==
    /\ pc \in {"gen_idle", "gen_done", "gen_raised"}
    /\ gen_calls < MaxCalls
    /\ EnterGenerate("harness")
    /\ exception' = "none"
    /\ UNCHANGED <<parseVars, threads, flowVars>>

NextGen == HarnessCall \/ GenSuccess \/ GenFailure \/ GenExhausted

SpecGen == InitGen /\ [][NextGen]_vars

\* C1: one generate call makes at most N attempts, at pairwise distinct cursor
\* positions, its loop ends once N attempts have failed, and the exhaustion
\* error is raised only when all N keys were attempted and failed in the call.
C1_Attempts == SelectSeq(gen_trace, LAMBDA e : e.ev = "attempt")
C1_Rotations == SelectSeq(gen_trace, LAMBDA e : e.ev = "rotate")
C1_BoundedDistinctAttempts ==
    LET n == Len(gemini_api_keys)
        a == C1_Attempts
    IN /\ Len(a) <= n
       /\ \A i, j \in 1..Len(a) : i # j => a[i].n # a[j].n
       /\ (pc = "gen" /\ Len(a) = n) => ~ENABLED GenFailure /\ ~ENABLED GenSuccess
       /\ exception = "ConnectionError" =>
            /\ {a[i].n : i \in 1..Len(a)} = 0..(n - 1)
            /\ Len(C1_Rotations) = n

\* C1 witness: a pool of three keys entered at cursor 1 is exhausted.
C1_Witness ==
    /\ pc = "gen_raised"
    /\ Len(gemini_api_keys) = 3
    /\ start_index = 1
    /\ Len(C1_Attempts) = 3

\* C12: a successful attempt ends the call at once: the cursor is left on the
\* key that succeeded, start marker plus this call's failures modulo N, with
\* no rotation after it, and the next call enters with the cursor unchanged
\* and makes its first attempt with that key.
C12_StickyCursor ==
    [][LET n == Len(gemini_api_keys) IN
       /\ (pc = "gen" /\ pc' = "gen_done") =>
            /\ active_gemini_key_index' = active_gemini_key_index
            /\ active_gemini_key_index' = (start_index + num_attempts) % n
            /\ gen_trace' = Append(gen_trace,
                                   Event("attempt", active_gemini_key_index'))
            /\ num_attempts' = num_attempts
       /\ pc = "gen_done" => pc' \in {"gen_done", "gen"}
       /\ (pc = "gen_done" /\ pc' = "gen") =>
            /\ active_gemini_key_index' = active_gemini_key_index
            /\ start_index' = active_gemini_key_index
            /\ gen_trace' = <<>>
       /\ (pc = "gen" /\ gen_trace = <<>> /\ gen_trace' # <<>>) =>
            /\ start_index = active_gemini_key_index
            /\ gen_trace'[1] = Event("attempt", start_index)
      ]_vars

\* C12 witness: the first call returned a text, and the second call made its
\* first attempt with the third key of three, where the cursor was left.
C12_Witness ==
    /\ pc = "gen"
    /\ gen_calls = 2
    /\ raw_response = <<"x">>
    /\ Len(gemini_api_keys) = 3
    /\ start_index = 2
    /\ gen_trace # <<>>
    /\ gen_trace[1] = Event("attempt", 2)

\* C13: in one call, a failed attempt is followed by the short pause exactly
\* when its error text has "429" or "quota", the pause comes before the
\* rotation, the longer pause comes only right after a rotation onto the
\* start marker, once in a call that exhausts the pool and never in a call
\* that returns a text.
C13_LongPauses == {i \in 1..Len(gen_trace) : gen_trace[i] = Event("sleep", 2)}
C13_BackoffOrdering ==
    LET t == gen_trace IN
    /\ \A i \in 1..Len(t) :
        /\ t[i].ev = "error" =>
             IF \E k \in 1..Len(ErrorTexts[t[i].n]) :
                   ErrorTexts[t[i].n][k] \in {"429", "quota"}
             THEN t[i + 1] = Event("sleep", 1) /\ t[i + 2].ev = "rotate"
             ELSE t[i + 1].ev = "rotate"
        /\ t[i] = Event("sleep", 1) => i > 1 /\ t[i - 1].ev = "error"
        /\ t[i] = Event("sleep", 2) =>
             i > 1 /\ t[i - 1] = Event("rotate", start_index)
        /\ t[i].ev = "rotate" => i > 1 /\ t[i - 1].ev \in {"error", "sleep"}
    /\ exception = "ConnectionError" => Cardinality(C13_LongPauses) = 1
    /\ pc = "gen_done" => C13_LongPauses = {}

\* C13 witness: two keys, the first fails on a rate limit, the second on a
\* server error: short pause, rotation, rotation, longer pause, exhaustion.
C13_Witness ==
    /\ pc = "gen_raised"
    /\ gen_trace = <<Event("attempt", 0), Event("error", 1), Event("sleep", 1),
                     Event("rotate", 1), Event("attempt", 1), Event("error", 3),
                     Event("rotate", 0), Event("sleep", 2)>>

\* C19: the cursor is always an index of the pool, and a call that exhausts
\* the pool leaves the cursor where it was at call entry.
C19_CursorFrame ==
    /\ active_gemini_key_index \in 0..(Len(gemini_api_keys) - 1)
    /\ exception = "ConnectionError" =>
         /\ num_attempts = Len(gemini_api_keys)
         /\ active_gemini_key_index = start_index

\* C19 witness: a pool of three keys entered at its last key is exhausted.
C19_Witness ==
    /\ pc = "gen_raised"
    /\ Len(gemini_api_keys) = 3
    /\ num_attempts = 3
    /\ active_gemini_key_index = 2

\* ----------------------------------------------------- the tracker
\* One request sent to the tracker, or one pause (op "sleep", res seconds):
\* idx is the item's position in its list, src the epic (a task's creation,
\* a link) or the parent task (a child's creation), dst the linked task, res
\* the created key (0: a status other than "created") or 1/0 for success.
Call(op, idx, src, dst, type, res) ==
    [op |-> op, idx |-> idx, src |-> src, dst |-> dst, type |-> type, res |-> res]

Sleep(seconds) == Call("sleep", 0, 0, 0, "", seconds)

LinkTypeNames == {"Relates", "Relates to", "Dependency", "Blocks",
                  "Duplicate", "Cloners"}

\* What the tracker may list: up to MaxLinkTypes distinct names, in any order.
LinkTypeResponses ==
    {q \in ItemSeqs(LinkTypeNames, MaxLinkTypes) :
        \A i, j \in 1..Len(q) : i # j => q[i] # q[j]}

preferred_link_types == <<"Relates", "Relates to", "Dependency", "Blocks">>

\* The selection with the fallback to the first available type left out.
SelectLinkTypeNoFallback(available) ==
    LET names == {available[i] : i \in 1..Len(available)}
        hits == {i \in 1..Len(preferred_link_types) : preferred_link_types[i] \in names}
    IN IF hits # {}
       THEN preferred_link_types[CHOOSE i \in hits : \A j \in hits : i <= j]
       ELSE ""

\* link_type_to_use: the first preferred name the tracker lists, else the
\* first listed name, else None ("").
SelectLinkType(available) ==
    LET names == {available[i] : i \in 1..Len(available)}
        hits == {i \in 1..Len(preferred_link_types) : preferred_link_types[i] \in names}
    IN IF hits # {}
       THEN preferred_link_types[CHOOSE i \in hits : \A j \in hits : i <= j]
       ELSE IF Len(available) > 0 THEN available[1] ELSE ""

\* ------------------------------------------------------------- main()
Crash(err) ==
    /\ exception' = err
    /\ pc' = "crashed"

\* A Step 2 that looks for an epic created by an earlier run and reuses it.
CreateParentReusesEpic ==
    /\ pc = "start"
    /\ LET found == {i \in 1..Len(calls) :
                        calls[i].op = "create_issue" /\ calls[i].idx = 0
                        /\ calls[i].res # 0}
       IN IF found # {}
          THEN /\ parent_ticket_key' = calls[CHOOSE i \in found : TRUE].res
               /\ pc' = "plan"
               /\ UNCHANGED <<calls, next_key>>
          ELSE \E ok \in BOOLEAN :
               /\ calls' = Append(calls, Call("create_issue", 0, 0, 0, "",
                                              IF ok THEN next_key ELSE 0))
               /\ parent_ticket_key' = IF ok THEN next_key ELSE 0
               /\ next_key' = IF ok THEN next_key + 1 ELSE next_key
               /\ pc' = IF ok THEN "plan" ELSE "aborted"
    /\ UNCHANGED <<exception, genVars, parseVars, threads, subtask_definitions,
                   available_link_types, link_type_to_use, created_issue_keys,
                   issue_data_mapping, task_i, task_k, test_case_definitions,
                   tc_j, created_test_keys>>

\* Step 2: create the parent ticket; return when that fails.
CreateParent ==
    /\ pc = "start"
    /\ \E ok \in BOOLEAN :
        /\ calls' = Append(calls, Call("create_issue", 0, 0, 0, "",
                                       IF ok THEN next_key ELSE 0))
        /\ parent_ticket_key' = IF ok THEN next_key ELSE 0
        /\ next_key' = IF ok THEN next_key + 1 ELSE next_key
        /\ pc' = IF ok THEN "plan" ELSE "aborted"
    /\ UNCHANGED <<exception, genVars, parseVars, threads, subtask_definitions,
                   available_link_types, link_type_to_use, created_issue_keys,
                   issue_data_mapping, task_i, task_k, test_case_definitions,
                   tc_j, created_test_keys>>

\* Step 3: generate_subtasks_from_requirement calls generate.
PlanSubtasks ==
    /\ pc = "plan"
    /\ EnterGenerate("subtasks")
    /\ UNCHANGED <<exception, parseVars, threads, flowVars>>

\* generate_subtasks_from_requirement returns the parsed text to main.
ParseSubtasks ==
    /\ pc = "parse_subtasks"
    /\ subtask_definitions' = parse_json_from_text(raw_response)
    /\ LeaveGenerate
    /\ pc' = "check_subtasks"
    /\ UNCHANGED <<exception, parseVars, threads, parent_ticket_key,
                   available_link_types, link_type_to_use, created_issue_keys,
                   issue_data_mapping, task_i, task_k, test_case_definitions,
                   tc_j, created_test_keys, next_key, calls>>

\* The exception of  for x in v: x[f] for f in fs  ("none": no exception).
LoopError(v, fs) ==
    IF ~Iterable(v) THEN "TypeError"
    ELSE LET its == IterItems(v)
             bad == {i \in 1..Len(its) : FieldsError(its[i], fs) # "none"}
         IN IF bad = {} THEN "none"
            ELSE FieldsError(its[CHOOSE i \in bad : \A j \in bad : i <= j], fs)

\* Step 4 without its test for an empty plan.
CheckSubtasksNoSkip ==
    /\ pc = "check_subtasks"
    /\ IF LoopError(subtask_definitions, {"title"}) # "none"
       THEN Crash(LoopError(subtask_definitions, {"title"}))
       ELSE pc' = "link_types" /\ UNCHANGED exception
    /\ UNCHANGED <<genVars, parseVars, threads, flowVars>>

\* Step 4's test and the loop printing each task's title.
CheckSubtasks ==
    /\ pc = "check_subtasks"
    /\ IF ~Truthy(subtask_definitions)
       THEN pc' = "report" /\ UNCHANGED exception
       ELSE IF LoopError(subtask_definitions, {"title"}) # "none"
       THEN Crash(LoopError(subtask_definitions, {"title"}))
       ELSE pc' = "link_types" /\ UNCHANGED exception
    /\ UNCHANGED <<genVars, parseVars, threads, flowVars>>

\* create_and_link_tasks up to its loop: fetch the link types (a failed
\* fetch gives none) and choose the one to use.
FetchLinkTypes ==
    /\ pc = "link_types"
    /\ \E ok \in BOOLEAN : \E listed \in LinkTypeResponses :
        LET types == IF ok THEN listed ELSE <<>> IN
        /\ ok \/ listed = <<>>
        /\ available_link_types' = types
        /\ link_type_to_use' = SelectLinkType(types)
        /\ calls' = Append(calls, Call("get_link_types", 0, 0, 0, "",
                                       IF ok THEN 1 ELSE 0))
    /\ created_issue_keys' = <<>>
    /\ issue_data_mapping' = <<>>
    /\ task_i' = 1
    /\ pc' = "task_loop"
    /\ UNCHANGED <<exception, genVars, parseVars, threads, parent_ticket_key,
                   subtask_definitions, task_k, test_case_definitions, tc_j,
                   created_test_keys, next_key>>

\* An assignment that is lost.
MapPutLost(mapping, key, value) == mapping

\* issue_data_mapping[key] = value
MapPut(mapping, key, value) == (key :> value) @@ mapping

\* The list create_and_link_tasks iterates over.
task_definitions == IterItems(subtask_definitions)

\* The loop body up to the link: build the description, create the issue,
\* record the key and the item on success.
CreateTask ==
    /\ pc = "task_loop"
    /\ task_i <= Len(task_definitions)
    /\ LET task == task_definitions[task_i] IN
       IF FieldsError(task, TaskFields) # "none"
       THEN /\ Crash(FieldsError(task, TaskFields))
            /\ UNCHANGED <<calls, created_issue_keys, issue_data_mapping,
                           next_key, task_i>>
       ELSE \E ok \in BOOLEAN :
            /\ calls' = Append(calls, Call("create_issue", task_i,
                                           parent_ticket_key, 0, "",
                                           IF ok THEN next_key ELSE 0))
            /\ created_issue_keys' =
                   IF ok THEN Append(created_issue_keys, next_key)
                   ELSE created_issue_keys
            /\ issue_data_mapping' =
                   IF ok THEN MapPut(issue_data_mapping, next_key, task)
                   ELSE issue_data_mapping
            /\ next_key' = IF ok THEN next_key + 1 ELSE next_key
            /\ IF ok /\ link_type_to_use # ""
               THEN pc' = "task_link" /\ UNCHANGED task_i
               ELSE pc' = "task_loop" /\ task_i' = task_i + 1
            /\ UNCHANGED exception
    /\ UNCHANGED <<genVars, parseVars, threads, parent_ticket_key,
                   subtask_definitions, available_link_types, link_type_to_use,
                   task_k, test_case_definitions, tc_j, created_test_keys>>

\* A loop body that links first and pauses afterwards.
LinkTaskBeforePause ==
    /\ pc = "task_link"
    /\ \E ok \in BOOLEAN :
        calls' = calls \o <<Call("link", task_i, parent_ticket_key,
                                 created_issue_keys[Len(created_issue_keys)],
                                 link_type_to_use, IF ok THEN 1 ELSE 0),
                            Sleep(1)>>
    /\ task_i' = task_i + 1
    /\ pc' = "task_loop"
    /\ UNCHANGED <<exception, genVars, parseVars, threads, parent_ticket_key,
                   subtask_definitions, available_link_types, link_type_to_use,
                   created_issue_keys, issue_data_mapping, task_k,
                   test_case_definitions, tc_j, created_test_keys, next_key>>

\* The rest of the loop body: pause, then link the parent to the new issue.
LinkTask ==
    /\ pc = "task_link"
    /\ \E ok \in BOOLEAN :
        calls' = calls \o <<Sleep(1),
                            Call("link", task_i, parent_ticket_key,
                                 created_issue_keys[Len(created_issue_keys)],
                                 link_type_to_use, IF ok THEN 1 ELSE 0)>>
    /\ task_i' = task_i + 1
    /\ pc' = "task_loop"
    /\ UNCHANGED <<exception, genVars, parseVars, threads, parent_ticket_key,
                   subtask_definitions, available_link_types, link_type_to_use,
                   created_issue_keys, issue_data_mapping, task_k,
                   test_case_definitions, tc_j, created_test_keys, next_key>>

\* create_and_link_tasks returns; Step 5 starts if a task was created.
ReturnTasks ==
    /\ pc = "task_loop"
    /\ task_i > Len(task_definitions)
    /\ available_link_types' = <<>>
    /\ link_type_to_use' = ""
    /\ task_i' = 0
    /\ task_k' = 1
    /\ pc' = IF Len(created_issue_keys) > 0 THEN "test_loop" ELSE "report"
    /\ UNCHANGED <<exception, genVars, parseVars, threads, parent_ticket_key,
                   subtask_definitions, created_issue_keys, issue_data_mapping,
                   test_case_definitions, tc_j, created_test_keys, next_key,
                   calls>>

\* A lookup that finds nothing.
MapGetNone(mapping, key) == None

\* task_data_map.get(task_key): the item, or None.
MapGet(mapping, key) == IF key \in DOMAIN mapping THEN mapping[key] ELSE None

\* Step 5's loop head: look the task up and, when found, start
\* process_and_create_test_cases, which calls generate.
StartTestCases ==
    /\ pc = "test_loop"
    /\ task_k <= Len(created_issue_keys)
    /\ IF Truthy(MapGet(issue_data_mapping, created_issue_keys[task_k]))
       THEN /\ EnterGenerate("tests")
            /\ UNCHANGED task_k
       ELSE /\ task_k' = task_k + 1
            /\ UNCHANGED <<pc, genVars>>
    /\ UNCHANGED <<exception, parseVars, threads, parent_ticket_key,
                   subtask_definitions, available_link_types, link_type_to_use,
                   created_issue_keys, issue_data_mapping, task_i,
                   test_case_definitions, tc_j, created_test_keys, next_key,
                   calls>>

\* generate_test_cases_for_task returns the parsed text; a true value has
\* its len() taken before the loop.
ParseTests ==
    /\ pc = "parse_tests"
    /\ LET parsed == parse_json_from_text(raw_response) IN
       /\ test_case_definitions' = parsed
       /\ IF Truthy(parsed) /\ ~Iterable(parsed)
          THEN Crash("TypeError")
          ELSE pc' = "tc_loop" /\ UNCHANGED exception
    /\ created_test_keys' = <<>>
    /\ tc_j' = 1
    /\ LeaveGenerate
    /\ UNCHANGED <<parseVars, threads, parent_ticket_key, subtask_definitions,
                   available_link_types, link_type_to_use, created_issue_keys,
                   issue_data_mapping, task_i, task_k, next_key, calls>>

\* The list process_and_create_test_cases iterates over.
test_cases == IterItems(test_case_definitions)

\* A loop body that creates the subtask under the epic.
CreateTestCaseUnderEpic ==
    /\ pc = "tc_loop"
    /\ tc_j <= Len(test_cases)
    /\ LET test_case == test_cases[tc_j] IN
       IF FieldsError(test_case, TestFields) # "none"
       THEN /\ Crash(FieldsError(test_case, TestFields))
            /\ UNCHANGED <<calls, created_test_keys, next_key, tc_j>>
       ELSE \E ok \in BOOLEAN :
            /\ calls' = calls
                   \o <<Call("create_child", tc_j, parent_ticket_key,
                             0, "", IF ok THEN next_key ELSE 0)>>
                   \o (IF ok THEN <<Sleep(1)>> ELSE <<>>)
            /\ created_test_keys' =
                   IF ok THEN Append(created_test_keys, next_key)
                   ELSE created_test_keys
            /\ next_key' = IF ok THEN next_key + 1 ELSE next_key
            /\ tc_j' = tc_j + 1
            /\ UNCHANGED <<pc, exception>>
    /\ UNCHANGED <<genVars, parseVars, threads, parent_ticket_key,
                   subtask_definitions, available_link_types, link_type_to_use,
                   created_issue_keys, issue_data_mapping, task_i, task_k,
                   test_case_definitions>>

\* One test case: print it, create the subtask, pause after a success.
CreateTestCase ==
    /\ pc = "tc_loop"
    /\ tc_j <= Len(test_cases)
    /\ LET test_case == test_cases[tc_j] IN
       IF FieldsError(test_case, TestFields) # "none"
       THEN /\ Crash(FieldsError(test_case, TestFields))
            /\ UNCHANGED <<calls, created_test_keys, next_key, tc_j>>
       ELSE \E ok \in BOOLEAN :
            /\ calls' = calls
                   \o <<Call("create_child", tc_j, created_issue_keys[task_k],
                             0, "", IF ok THEN next_key ELSE 0)>>
                   \o (IF ok THEN <<Sleep(1)>> ELSE <<>>)
            /\ created_test_keys' =
                   IF ok THEN Append(created_test_keys, next_key)
                   ELSE created_test_keys
            /\ next_key' = IF ok THEN next_key + 1 ELSE next_key
            /\ tc_j' = tc_j + 1
            /\ UNCHANGED <<pc, exception>>
    /\ UNCHANGED <<genVars, parseVars, threads, parent_ticket_key,
                   subtask_definitions, available_link_types, link_type_to_use,
                   created_issue_keys, issue_data_mapping, task_i, task_k,
                   test_case_definitions>>

\* process_and_create_test_cases returns; main pauses and takes the next task.
ReturnTests ==
    /\ pc = "tc_loop"
    /\ tc_j > Len(test_cases)
    /\ calls' = Append(calls, Sleep(2))
    /\ task_k' = task_k + 1
    /\ test_case_definitions' = None
    /\ created_test_keys' = <<>>
    /\ tc_j' = 0
    /\ pc' = "test_loop"
    /\ UNCHANGED <<exception, genVars, parseVars, threads, parent_ticket_key,
                   subtask_definitions, available_link_types, link_type_to_use,
                   created_issue_keys, issue_data_mapping, task_i, next_key>>

\* Step 5's loop is over.
EndTestCases ==
    /\ pc = "test_loop"
    /\ task_k > Len(created_issue_keys)
    /\ pc' = "report"
    /\ UNCHANGED <<exception, genVars, parseVars, threads, flowVars>>

\* Step 6: get_project_issues, then main returns.
ReportState ==
    /\ pc = "report"
    /\ \E ok \in BOOLEAN :
        calls' = Append(calls, Call("get_project_issues", 0, 0, 0, "",
                                    IF ok THEN 1 ELSE 0))
    /\ pc' = "done"
    /\ UNCHANGED <<exception, genVars, parseVars, threads, parent_ticket_key,
                   subtask_definitions, available_link_types, link_type_to_use,
                   created_issue_keys, issue_data_mapping, task_i, task_k,
                   test_case_definitions, tc_j, created_test_keys, next_key>>

Init ==
    /\ SingleThread
    /\ InitIdle
    /\ pc = "start"
    /\ parse_text = <<>>
    /\ gemini_api_keys = [i \in 1..NumKeys |-> i]
    /\ active_gemini_key_index = 0

Next ==
    \/ CreateParent \/ PlanSubtasks
    \/ GenSuccess \/ GenFailure \/ GenExhausted
    \/ ParseSubtasks \/ CheckSubtasks
    \/ FetchLinkTypes \/ CreateTask \/ LinkTask \/ ReturnTasks
    \/ StartTestCases \/ ParseTests \/ CreateTestCase \/ ReturnTests
    \/ EndTestCases \/ ReportState

Spec == Init /\ [][Next]_vars

\* ------------------------------------------------- the run as a whole
\* main() is over: it returned after the report, returned at the failed
\* parent creation, or an exception left it.
Ended == pc \in {"done", "aborted", "crashed"}
Reported == \E i \in 1..Len(calls) : calls[i].op = "get_project_issues"

\* v is a list whose every item is an object with the fields fs.
ValidSeq(v, fs) ==
    /\ v.type = "arr"
    /\ \A i \in 1..Len(v.items) : FieldsError(v.items[i], fs) = "none"

\* C2: when every key fails during planSubtasks, planSubtasks returns an empty
\* result: no exception reaches main and the run goes on to its final stage.
C2_ExhaustedPlanIsEmptyResult ==
    (gen_caller = "subtasks" /\ num_attempts >= Len(gemini_api_keys))
        => (exception = "none" /\ pc # "crashed")

\* C3: whatever the remote calls answer, a run ends only after
\* get_project_issues and never by an exception.  Stated for the runs whose
\* parent was created and whose answers were well-formed: stage 1's own abort
\* is C5's subject, a malformed answer C8's.
C3_ReportAlwaysRuns ==
    (Ended /\ parent_ticket_key # 0 /\ exception \notin {"TypeError", "KeyError"})
        => (Reported /\ exception = "none")

\* C4: a failed test-case generation for one task (keys exhausted, unparsable
\* or empty answer) creates no subtask for it, raises nothing, and leaves the
\* later tasks their turn.
C4_TestGenerationFailureIsLocal ==
    /\ gen_caller = "tests" => (exception = "none" /\ pc # "crashed")
    /\ (pc = "tc_loop" /\ ~Truthy(test_case_definitions)) =>
         /\ created_test_keys = <<>>
         /\ \A i \in 1..Len(calls) :
              calls[i].op = "create_child" => calls[i].src # created_issue_keys[task_k]

\* C5: a failed parent creation ends the run with no further call, and it is
\* the only remote failure that ends a run before its report.
C5_OnlyParentFailureHalts ==
    /\ pc = "aborted" => (parent_ticket_key = 0 /\ Len(calls) = 1 /\ gen_calls = 0)
    /\ (Ended /\ ~Reported /\ exception \notin {"TypeError", "KeyError"})
         => pc = "aborted"

\* C15: when the plan main receives is empty (None from an unparsable answer,
\* or an empty array), the run goes from the test of the plan to the report
\* with no request in between and no second generation, the report is the
\* one request after the epic's creation, and the run does not crash.
C15_EmptyPlan ==
    /\ parent_ticket_key # 0
    /\ gen_calls >= 1
    /\ pc \in {"check_subtasks", "report", "done", "crashed"}
    /\ ~Truthy(subtask_definitions)
C15_EmptyPlanSkipsToReport ==
    C15_EmptyPlan =>
        /\ gen_calls = 1
        /\ created_issue_keys = <<>>
        /\ calls[1] = Call("create_issue", 0, 0, 0, "", parent_ticket_key)
        /\ pc = "check_subtasks" => Len(calls) = 1 /\ ENABLED CheckSubtasks
        /\ pc = "report" => Len(calls) = 1 /\ ENABLED ReportState
        /\ pc = "done" => Len(calls) = 2 /\ calls[2].op = "get_project_issues"
        /\ pc = "crashed" => exception = "ConnectionError" /\ Len(calls) = 1

\* C15 witness: the planner answered "[]" and the run ended with the epic's
\* creation and the report as its only requests.
C15_Witness ==
    /\ pc = "done"
    /\ subtask_definitions = Arr(<<>>)
    /\ Len(calls) = 2
    /\ calls[2].op = "get_project_issues"

\* C8: what the planners hand over is empty or a sequence whose every item has
\* all required fields, and no answer of the generator, whatever its JSON,
\* makes the planner or main raise.
C8_PlannerOutputValidated ==
    /\ pc = "check_subtasks" =>
         (~Truthy(subtask_definitions) \/ ValidSeq(subtask_definitions, TaskFields))
    /\ pc = "tc_loop" =>
         (~Truthy(test_case_definitions) \/ ValidSeq(test_case_definitions, TestFields))
    /\ exception \notin {"TypeError", "KeyError"}

\* C9: no remote mutation is retried or left out: one creation for the
\* parent, exactly one per TaskSpec, at most one link per created task,
\* exactly one child creation per returned TestCaseSpec.
C9_CountOf(op, src, idx) ==
    Cardinality({i \in 1..Len(calls) :
        calls[i].op = op /\ calls[i].src = src /\ calls[i].idx = idx})
C9_ExactlyOncePerItem ==
    /\ pc # "start" => C9_CountOf("create_issue", 0, 0) = 1
    /\ \A i \in 1..Len(task_definitions) :
         /\ C9_CountOf("create_issue", parent_ticket_key, i) <= 1
         /\ C9_CountOf("link", parent_ticket_key, i)
              <= C9_CountOf("create_issue", parent_ticket_key, i)
         /\ (/\ pc \in {"done", "crashed"}
             /\ subtask_definitions.type = "arr"
             /\ FieldsError(task_definitions[i], TaskFields) = "none")
              => C9_CountOf("create_issue", parent_ticket_key, i) = 1
    /\ \A j \in 1..Len(test_cases) :
         /\ pc \in {"tc_loop", "crashed"} =>
              C9_CountOf("create_child", created_issue_keys[task_k], j) <= 1
         /\ (/\ (pc = "tc_loop" /\ tc_j > Len(test_cases)) \/ pc = "crashed"
             /\ test_case_definitions.type = "arr"
             /\ FieldsError(test_cases[j], TestFields) = "none")
              => C9_CountOf("create_child", created_issue_keys[task_k], j) = 1

\* ------------------------------- create_and_link_tasks on its own
\* main() has created the epic and planSubtasks has returned TaskSpecs.
InitTasks ==
    /\ SingleThread
    /\ InitCommon
    /\ pc = "link_types"
    /\ parse_text = <<>>
    /\ gemini_api_keys = [i \in 1..NumKeys |-> i]
    /\ active_gemini_key_index \in 0..(NumKeys - 1)
    /\ gen_calls = 1
    /\ parent_ticket_key = 1
    /\ next_key = 2
    /\ calls = <<Call("create_issue", 0, 0, 0, "", 1)>>
    /\ subtask_definitions \in
           {Arr([i \in 1..n |-> Obj(TaskFields)]) : n \in 1..MaxSpecs}

NextTasks == FetchLinkTypes \/ CreateTask \/ LinkTask \/ ReturnTasks

SpecTasks == InitTasks /\ [][NextTasks]_vars

\* The requests of one kind sent so far, in order.
CallsOf(op) == SelectSeq(calls, LAMBDA c : c.op = op)
\* The creations of tasks (the epic's has idx 0).
TaskCreates == SelectSeq(calls, LAMBDA c : c.op = "create_issue" /\ c.idx > 0)
InTaskStage == pc \in {"task_loop", "task_link"}
TaskLoopDone == pc = "task_loop" /\ task_i > Len(task_definitions)

\* C6: create_and_link_tasks processes every TaskSpec whatever fails, its
\* mapping has exactly one entry per successful creation, and a link call is
\* made for a task only if its creation succeeded.
C6_EveryTaskProcessed ==
    LET creates == TaskCreates
        links == CallsOf("link")
        made == {i \in 1..Len(creates) : creates[i].res # 0}
    IN /\ pc # "crashed"
       /\ InTaskStage =>
            \* one creation per item reached so far, in input order
            /\ Len(creates) = (IF pc = "task_link" THEN task_i ELSE task_i - 1)
            /\ \A i \in 1..Len(creates) : creates[i].idx = i
            \* the mapping and the key list hold the successes, nothing else
            /\ DOMAIN issue_data_mapping = {creates[i].res : i \in made}
            /\ Cardinality(DOMAIN issue_data_mapping) = Cardinality(made)
            /\ Len(created_issue_keys) = Cardinality(made)
            \* each link is for a created task, at most one per task
            /\ \A l \in 1..Len(links) :
                 /\ links[l].idx \in made
                 /\ links[l].dst = creates[links[l].idx].res
                 /\ \A m \in 1..Len(links) : links[m].idx = links[l].idx => m = l
       /\ TaskLoopDone => Len(creates) = Len(task_definitions)

\* C6 witness: three TaskSpecs, the second creation failed: two mapping
\* entries, two link attempts.
C6_Witness ==
    /\ TaskLoopDone
    /\ Len(task_definitions) = 3
    /\ TaskCreates[1].res # 0 /\ TaskCreates[2].res = 0 /\ TaskCreates[3].res # 0
    /\ Cardinality(DOMAIN issue_data_mapping) = 2
    /\ Len(CallsOf("link")) = 2

\* C7: the link type used is the first name of the preference order that the
\* tracker lists; with none of them listed, the first listed type, for every
\* pair; with nothing listed (or a failed fetch) no link call is made and the
\* issues are still created.
C7_Names == {available_link_types[i] : i \in 1..Len(available_link_types)}
C7_LinkTypeSelection ==
    LET links == CallsOf("link")
        fetch == CallsOf("get_link_types")
    IN InTaskStage =>
        /\ \A i \in 1..Len(preferred_link_types) :
             (/\ preferred_link_types[i] \in C7_Names
              /\ \A j \in 1..(i - 1) : preferred_link_types[j] \notin C7_Names)
             => link_type_to_use = preferred_link_types[i]
        /\ (/\ \A i \in 1..Len(preferred_link_types) :
                  preferred_link_types[i] \notin C7_Names
            /\ Len(available_link_types) > 0)
             => link_type_to_use = available_link_types[1]
        /\ \A l \in 1..Len(links) : links[l].type = link_type_to_use
        /\ Len(available_link_types) = 0 => Len(links) = 0
        /\ fetch[Len(fetch)].res = 0 => Len(links) = 0
        /\ Len(available_link_types) > 0 =>
             Len(links) = Len(created_issue_keys) - (IF pc = "task_link" THEN 1 ELSE 0)
        /\ TaskLoopDone => Len(TaskCreates) = Len(task_definitions)

\* C7 witness: no preferred type is listed, so all three pairs are linked
\* with the first listed type.
C7_Witness ==
    /\ TaskLoopDone
    /\ available_link_types = <<"Duplicate", "Cloners">>
    /\ Len(CallsOf("link")) = 3
    /\ \A l \in 1..3 : CallsOf("link")[l].type = "Duplicate"

\* C7 witness of the other end: nothing listed, three issues created unlinked.
C7_WitnessNoTypes ==
    /\ TaskLoopDone
    /\ available_link_types = <<>>
    /\ Len(created_issue_keys) = 3
    /\ Len(CallsOf("link")) = 0

\* Stage 4: main's loop over the created task keys.
InTestStage ==
    \/ pc \in {"test_loop", "parse_tests", "tc_loop"}
    \/ pc = "gen" /\ gen_caller = "tests"

\* The positions in calls of the pauses between tasks.
TaskPauses == {i \in 1..Len(calls) : calls[i] = Sleep(2)}

\* ----------------------- process_and_create_test_cases on its own
\* One task was created (unlinked: the tracker listed no link type),
\* generate_test_cases_for_task has returned TestCaseSpecs for it, and the
\* loop over them is about to start.
InitTests ==
    /\ SingleThread
    /\ InitNoCall
    /\ pc = "tc_loop"
    /\ parse_text = <<>>
    /\ gemini_api_keys = [i \in 1..NumKeys |-> i]
    /\ active_gemini_key_index \in 0..(NumKeys - 1)
    /\ gen_calls = 2
    /\ parent_ticket_key = 1
    /\ subtask_definitions = Arr(<<Obj(TaskFields)>>)
    /\ available_link_types = <<>>
    /\ link_type_to_use = ""
    /\ created_issue_keys = <<2>>
    /\ issue_data_mapping = (2 :> Obj(TaskFields))
    /\ task_i = 0
    /\ task_k = 1
    /\ test_case_definitions \in
           {Arr([i \in 1..n |-> Obj(TestFields)]) : n \in 1..MaxCases}
    /\ tc_j = 1
    /\ created_test_keys = <<>>
    /\ next_key = 3
    /\ \E listed \in {0, 1} :
        calls = <<Call("create_issue", 0, 0, 0, "", 1),
                  Call("get_link_types", 0, 0, 0, "", listed),
                  Call("create_issue", 1, 1, 0, "", 2)>>

NextTests == CreateTestCase \/ ReturnTests \/ EndTestCases \/ ReportState

SpecTests == InitTests /\ [][NextTests]_vars

\* C14: in stage 4 every subtask creation, successful or failed, is followed
\* by a pause before the next request, and every task processed so far was
\* followed by main's longer pause.
C14_EveryCreationPaced ==
    /\ \A i \in 1..(Len(calls) - 1) :
         calls[i].op = "create_child" => calls[i + 1].op = "sleep"
    /\ InTestStage => Cardinality(TaskPauses) = task_k - 1

\* C16: in create_and_link_tasks the link types are fetched once, before the
\* first creation; the creations follow the input order; a creation that
\* succeeded while a link type was resolved is followed by the pause and then
\* by the link from the epic to the new issue, before the next creation; any
\* other creation is followed directly by the next one.
C16_IsTaskCreate(c) == c.op = "create_issue" /\ c.idx > 0
C16_CreateThenPauseThenLink ==
    LET c == calls
        fetches == {i \in 1..Len(c) : c[i].op = "get_link_types"}
    IN
    /\ pc # "link_types" => fetches = {2}
    /\ \A k \in 1..Len(TaskCreates) : TaskCreates[k].idx = k
    /\ InTaskStage =>
        \A i \in 1..Len(c) :
            /\ C16_IsTaskCreate(c[i]) =>
                /\ i > 2
                /\ IF c[i].res # 0 /\ link_type_to_use # ""
                   THEN IF i = Len(c)
                        THEN pc = "task_link" /\ task_i = c[i].idx
                        ELSE /\ i + 2 <= Len(c)
                             /\ c[i + 1] = Sleep(1)
                             /\ c[i + 2].op = "link"
                             /\ c[i + 2].src = parent_ticket_key
                             /\ c[i + 2].dst = c[i].res
                             /\ c[i + 2].type = link_type_to_use
                             /\ i + 2 < Len(c) => C16_IsTaskCreate(c[i + 3])
                   ELSE /\ i = Len(c) => pc = "task_loop"
                        /\ i < Len(c) => C16_IsTaskCreate(c[i + 1])
            /\ c[i].op = "link" =>
                /\ c[i - 1] = Sleep(1)
                /\ C16_IsTaskCreate(c[i - 2])
                /\ c[i - 2].res = c[i].dst
            /\ c[i].op = "sleep" => i < Len(c) /\ c[i + 1].op = "link"

\* C16 witness: three TaskSpecs with a link type resolved, the second
\* creation failed: create, pause, link, create, create, pause, link.
C16_Witness ==
    /\ TaskLoopDone
    /\ link_type_to_use # ""
    /\ Len(calls) = 9
    /\ TaskCreates[2].res = 0
    /\ calls[4] = Sleep(1)
    /\ calls[5].op = "link"
    /\ calls[6].op = "create_issue"
    /\ calls[7].op = "create_issue"

\* C17: every created task key has its item in the mapping, so main's lookup
\* always finds a true value and no task is skipped: in stage 4 the tasks
\* before the current one were each processed and followed by main's pause,
\* in the order of the created keys, which is the order of their creation.
C17_Children == SelectSeq(calls, LAMBDA c : c.op = "create_child")
C17_Position(key) ==
    CHOOSE k \in 1..Len(created_issue_keys) : created_issue_keys[k] = key
C17_MappingComplete ==
    /\ \A k \in 1..Len(created_issue_keys) :
        /\ created_issue_keys[k] \in DOMAIN issue_data_mapping
        /\ Truthy(MapGet(issue_data_mapping, created_issue_keys[k]))
    /\ InTestStage =>
        /\ task_k \in 1..(Len(created_issue_keys) + 1)
        /\ Cardinality(TaskPauses) = task_k - 1
        /\ LET made == SelectSeq(TaskCreates, LAMBDA c : c.res # 0) IN
           /\ Len(made) = Len(created_issue_keys)
           /\ \A k \in 1..Len(made) : made[k].res = created_issue_keys[k]
        /\ LET children == C17_Children
               at == [i \in 1..Len(children) |-> C17_Position(children[i].src)]
           IN /\ \A i, j \in 1..Len(at) : i < j => at[i] <= at[j]
              /\ \A i \in 1..Len(at) : at[i] <= task_k

\* C17 witness: two tasks were created, the first has its test case, and the
\* second one's test cases are being created.
C17_Witness ==
    /\ pc = "tc_loop"
    /\ task_k = 2
    /\ Len(created_issue_keys) = 2
    /\ Len(C17_Children) = 1
    /\ C17_Children[1].src = created_issue_keys[1]
    /\ tc_j = 1
    /\ Len(test_cases) = 1

\* C18: every link goes from the run's epic to a key returned by an earlier
\* successful task creation, and every subtask is created under such a key,
\* never under the epic or under nothing: the key of the task main looked up
\* and generated the test cases for.
C18_CreatedBefore(i, key) ==
    /\ key # 0
    /\ \E j \in 1..(i - 1) : C16_IsTaskCreate(calls[j]) /\ calls[j].res = key
C18_ReferentialIntegrity ==
    LET pauses == TaskPauses IN
    \A i \in 1..Len(calls) :
        /\ calls[i].op = "link" =>
            /\ parent_ticket_key # 0
            /\ calls[i].src = parent_ticket_key
            /\ calls[i].dst # parent_ticket_key
            /\ C18_CreatedBefore(i, calls[i].dst)
        /\ calls[i].op = "create_child" =>
            /\ calls[i].src # parent_ticket_key
            /\ C18_CreatedBefore(i, calls[i].src)
            /\ calls[i].src \in DOMAIN issue_data_mapping
            /\ (pc = "tc_loop" /\ \A p \in pauses : p < i) =>
                 calls[i].src = created_issue_keys[task_k]

\* C18 witness: the first task's creation failed, the second was created and
\* linked, and a subtask was created under the second.
C18_Witness ==
    /\ pc = "done"
    /\ Len(TaskCreates) = 2
    /\ TaskCreates[1].res = 0
    /\ \E i \in 1..Len(calls) :
         calls[i].op = "link" /\ calls[i].dst = TaskCreates[2].res
    /\ \E i \in 1..Len(calls) :
         /\ calls[i].op = "create_child"
         /\ calls[i].src = TaskCreates[2].res
         /\ calls[i].res # 0

\* --------------- generate_with_gemini_resilience called by two threads
\* The program runs one thread.  Here two threads each call generate once on
\* the module-level cursor, and a thread may be preempted between any two
\* accesses to it: the read of line 32, and the read and the write of line 59.
Threads == {1, 2}

\* A thread's frame: its position, generate's locals, the key index it read
\* at line 32, the value it computed at line 59 and has yet to store, the key
\* indices it attempted, and whether another thread wrote the cursor during
\* its call.
Frame(at, start, n, key, loaded, attempted, disturbed) ==
    [pc |-> at, start_index |-> start, num_attempts |-> n, key |-> key,
     loaded |-> loaded, attempted |-> attempted, disturbed |-> disturbed]

InCall(f) == f.pc \in {"try", "call", "load", "store"}

raceFrame == <<pc, exception, gemini_api_keys, start_index, num_attempts,
               gen_caller, gen_trace, gen_calls, raw_response, parseVars,
               flowVars>>

InitRace ==
    /\ InitIdle
    /\ pc = "threads"
    /\ parse_text = <<>>
    /\ gemini_api_keys = [i \in 1..NumKeys |-> i]
    /\ active_gemini_key_index \in 0..(NumKeys - 1)
    /\ threads = [t \in Threads |-> Frame("idle", 0, 0, 0, 0, <<>>, FALSE)]

\* Lines 42-43: the start marker and the attempt count.
RaceEnter(t) ==
    /\ threads[t].pc = "idle"
    /\ threads' = [threads EXCEPT ![t] =
           Frame("try", active_gemini_key_index, 0, 0, 0, <<>>, FALSE)]
    /\ UNCHANGED <<active_gemini_key_index, raceFrame>>

\* Lines 45-47 and 32: the loop test, then the key at the cursor is configured.
RaceConfigure(t) ==
    /\ threads[t].pc = "try"
    /\ threads' = [threads EXCEPT ![t].pc = "call",
                                  ![t].key = active_gemini_key_index]
    /\ UNCHANGED <<active_gemini_key_index, raceFrame>>

\* Lines 48-49: the attempt succeeds and the text is returned.
RaceReturn(t) ==
    /\ threads[t].pc = "call"
    /\ threads' = [threads EXCEPT ![t].pc = "returned",
                      ![t].attempted = Append(@, threads[t].key)]
    /\ UNCHANGED <<active_gemini_key_index, raceFrame>>

\* Lines 48 and 50-56: the attempt raises.
RaceRaise(t) ==
    /\ threads[t].pc = "call"
    /\ threads' = [threads EXCEPT ![t].pc = "load",
                      ![t].attempted = Append(@, threads[t].key)]
    /\ UNCHANGED <<active_gemini_key_index, raceFrame>>

\* Line 59, right-hand side: the next index is computed from the cursor.
RaceLoad(t) ==
    /\ threads[t].pc = "load"
    /\ threads' = [threads EXCEPT ![t].pc = "store",
                      ![t].loaded = NextIndex(active_gemini_key_index,
                                              Len(gemini_api_keys))]
    /\ UNCHANGED <<active_gemini_key_index, raceFrame>>

\* Line 59's assignment, line 60, and the loop test of line 45; line 66 when
\* the count has reached the pool size.  The threads inside a call see
\* their cursor written by another.
RaceStore(t) ==
    /\ threads[t].pc = "store"
    /\ active_gemini_key_index' = threads[t].loaded
    /\ threads' = [u \in Threads |->
           IF u = t
           THEN [threads[t] EXCEPT
                    !.num_attempts = @ + 1,
                    !.pc = IF threads[t].num_attempts + 1 < Len(gemini_api_keys)
                           THEN "try" ELSE "raised"]
           ELSE [threads[u] EXCEPT !.disturbed = @ \/ InCall(threads[u])]]
    /\ UNCHANGED raceFrame

NextRace ==
    \E t \in Threads :
        \/ RaceEnter(t) \/ RaceConfigure(t) \/ RaceReturn(t)
        \/ RaceRaise(t) \/ RaceLoad(t) \/ RaceStore(t)

SpecRace == InitRace /\ [][NextRace]_vars

\* C20: the cursor is shared and unprotected.  A call during which no other
\* thread wrote the cursor, as every call of the one-threaded program, makes
\* its attempts with pairwise distinct keys and raises only after attempting
\* every key; the witness is the race this leaves open to interleaved calls.
C20_Keys(t) == {threads[t].attempted[i] : i \in 1..Len(threads[t].attempted)}
C20_Covers(t) ==
    /\ Cardinality(C20_Keys(t)) = Len(threads[t].attempted)
    /\ threads[t].pc = "raised" => C20_Keys(t) = 0..(Len(gemini_api_keys) - 1)
C20_UndisturbedCallsCover ==
    \A t \in Threads :
        /\ Len(threads[t].attempted) <= Len(gemini_api_keys)
        /\ ~threads[t].disturbed => C20_Covers(t)

\* C20 witness: interleaved with the other, a call raised the exhaustion
\* error after two attempts with the same key, the other key never tried.
C20_Witness ==
    \E t \in Threads :
        /\ threads[t].pc = "raised"
        /\ threads[t].disturbed
        /\ Len(threads[t].attempted) = Len(gemini_api_keys)
        /\ Cardinality(C20_Keys(t)) = 1

\* ------------------------------------------------ main() run twice
\* The program is started again after a complete run: a new process, whose
\* module state and locals are those of a first start, against the tracker
\* as the first run left it.  The tracker answers every request with
\* success and lists the same two link types each time.
ListedLinkTypes == <<"Blocks", "Relates">>

AllSucceed == \A i \in 1..Len(calls) : calls[i].res # 0

\* The positions in calls of the epic creations and of the reports.
EpicCreates ==
    {i \in 1..Len(calls) : calls[i].op = "create_issue" /\ calls[i].idx = 0}
Reports == {i \in 1..Len(calls) : calls[i].op = "get_project_issues"}

RunAgain ==
    /\ pc = "done"
    /\ Cardinality(Reports) < 2
    /\ pc' = "start"
    /\ active_gemini_key_index' = 0
    /\ gen_calls' = 0
    /\ parent_ticket_key' = 0
    /\ subtask_definitions' = None
    /\ created_issue_keys' = <<>>
    /\ issue_data_mapping' = <<>>
    /\ task_k' = 0
    /\ UNCHANGED <<exception, gemini_api_keys, start_index, num_attempts,
                   gen_caller, gen_trace, raw_response, parseVars, threads,
                   available_link_types, link_type_to_use, task_i,
                   test_case_definitions, tc_j, created_test_keys, next_key,
                   calls>>

NextTwice ==
    \/ CreateParent /\ AllSucceed'
    \/ PlanSubtasks
    \/ GenSuccess \/ GenFailure \/ GenExhausted
    \/ ParseSubtasks
    \/ CheckSubtasks
    \/ FetchLinkTypes /\ AllSucceed' /\ available_link_types' = ListedLinkTypes
    \/ CreateTask /\ AllSucceed'
    \/ LinkTask /\ AllSucceed'
    \/ ReturnTasks
    \/ StartTestCases
    \/ ParseTests
    \/ CreateTestCase /\ AllSucceed'
    \/ ReturnTests
    \/ EndTestCases
    \/ ReportState /\ AllSucceed'
    \/ RunAgain

SpecTwice == Init /\ [][NextTwice]_vars

\* C11: a second run of main() against the tracker the first run filled
\* creates a second epic, with no request before that creation, and then
\* creates its own planned tasks and test cases in full under the new keys:
\* no request of the second run names a key of the first run, and the only
\* listing of the project's issues is the report that ends the run.
C11_SecondRunStarted ==
    /\ Reports # {}
    /\ pc \notin {"start", "done"} \/ (pc = "done" /\ Cardinality(Reports) = 2)
C11_Second == CHOOSE i \in EpicCreates : \A j \in EpicCreates : j <= i
C11_Count(op, src) ==
    Cardinality({i \in C11_Second..Len(calls) :
                    calls[i].op = op /\ calls[i].src = src})
C11_NotIdempotent ==
    C11_SecondRunStarted =>
        /\ Cardinality(EpicCreates) = 2
        /\ 1 \in EpicCreates
        /\ calls[C11_Second - 1].op = "get_project_issues"
        /\ LET epic == calls[C11_Second].res IN
           /\ epic = parent_ticket_key
           /\ epic # calls[1].res
           /\ \A i \in 1..(C11_Second - 1) : calls[i].res < epic
           /\ \A i \in (C11_Second + 1)..Len(calls) :
               /\ calls[i].op = "create_issue" =>
                    calls[i].src = epic /\ calls[i].res > epic
               /\ calls[i].op = "link" =>
                    calls[i].src = epic /\ calls[i].dst > epic
               /\ calls[i].op = "create_child" =>
                    calls[i].src > epic /\ calls[i].res > calls[i].src
               /\ calls[i].op = "get_project_issues" =>
                    i = Len(calls) /\ pc = "done"
           /\ (InTestStage \/ (pc \in {"report", "done"}
                                /\ Truthy(subtask_definitions))) =>
                /\ C11_Count("create_issue", epic) = Len(task_definitions)
                /\ C11_Count("link", epic) = Len(task_definitions)
                /\ Len(created_issue_keys) = Len(task_definitions)
           /\ (pc = "tc_loop" /\ tc_j > Len(test_cases)) =>
                C11_Count("create_child", created_issue_keys[task_k])
                    = Len(test_cases)

\* C11 witness: both runs planned two tasks with one test case each; the
\* second run ended having created its own epic, two tasks and two subtasks
\* next to those of the first run: ten issues.
C11_Witness ==
    /\ pc = "done"
    /\ Cardinality(EpicCreates) = 2
    /\ Len(task_definitions) = 2
    /\ Len(TaskCreates) = 4
    /\ Len(CallsOf("create_child")) = 4
    /\ next_key = 11

\* C10: parse_json_from_text decodes the text from the first "[" to the last
\* "]" inclusive when a "[" occurs and the last "]" lies at or after it, and
\* the whole text otherwise; a decoding failure gives None and no exception.
C10_Bracketed(t) ==
    /\ \E i \in 1..Len(t) : t[i] = "["
    /\ \E i \in 1..Len(t) : t[i] = "]" /\ \E j \in 1..i : t[j] = "["
C10_FirstOpen(t) == CHOOSE i \in 1..Len(t) : t[i] = "[" /\ \A j \in 1..Len(t) : t[j] = "[" => i <= j
C10_LastClose(t) == CHOOSE i \in 1..Len(t) : t[i] = "]" /\ \A j \in 1..Len(t) : t[j] = "]" => j <= i
C10_Decoded(t) ==
    LET r == IF C10_Bracketed(t)
             THEN json_loads(SubSeq(t, C10_FirstOpen(t), C10_LastClose(t)))
             ELSE json_loads(t)
    IN IF r.ok THEN r.val ELSE None
====
